---- MODULE Spec2Model ----
(***************************************************************************)
(* A model of the process-orchestration core of the Paladin Linux sandbox: *)
(*   sandbox_api/executor.py       stream_process, run_capture             *)
(*   sandbox_api/main.py           /execute, /execute/stream, /playwright, *)
(*                                 /scan/static                            *)
(*   app/main.py                   /command                                *)
(*   sandbox_api/scanners/*.py     _run, the SARIF adapters, run_all,      *)
(*                                 merge_sarif                             *)
(*                                                                         *)
(* Time is counted in whole seconds.  A timer that is due fires before the *)
(* clock moves on.  Spec drives one invocation at a time of the functions  *)
(* that share no state (the Executor generator and the blocking handlers); *)
(* SpecBg is the service with its background registry, where requests      *)
(* interleave at the await and yield points of the handlers.               *)
(***************************************************************************)
EXTENDS Integers, Sequences, FiniteSets, TLC

\* ------------------------------------------------------------- bounds
\* Lines a process under stream_process writes before it stops writing.
MaxLines == 3
\* Seconds the model follows a process under stream_process.
MaxTime == 7
\* Entries in the result list of one tool's output.
MaxFindings == 2
\* Lines of a background process waiting in its two pipes.
MaxBgLines == 1

\* ------------------------------------------------- program constants
\* executor.py:7   timeout: int | None = None
NoTimeout == 0
\* executor.py:23  asyncio.wait_for(proc.wait(), timeout=3)
Grace == 3
\* the return code Popen reports for a child it killed with SIGKILL
KillCode == -9
\* app/main.py:206 and :215  exit_code=-1
Sentinel == -1

\* timeouts a caller passes to stream_process
Timeouts == {NoTimeout, 3}
\* return codes a process ends with on its own: success, failure, death by
\* SIGHUP (Popen reports a signal death as the negated signal number)
ExitCodes == {0, 1, -1}
\* one line of output as the process writes it: the text and its newline.
\* "LONG" stands for a text of 2^16 characters or more, which is more than
\* the StreamReader of create_subprocess_exec holds (its default limit)
Lines == {<<"\n">>, <<"a", "\n">>, <<"LONG", "\n">>}
Consumers == {"run_capture", "stream"}

\* text a command writes to a captured channel
Texts == {"", "x"}
\* return codes of the scan tools: clean, findings exist, tool error
ToolCodes == {0, 1, 2}
\* what a spawned command does under a blocking call with a timeout:
\* the spawn fails (executable or working directory missing, or any other
\* OSError), the command ends on its own (kind exit, or kind undecodable
\* when it has written bytes that text=True cannot decode), or it is still
\* running when the timeout elapses.  Under shell=True the process started is /bin/sh, and
\* child says whether the shell runs the command in a child of its own
\* (dash does, and every shell does for a compound command) or replaces
\* itself with the command.
ExecBehaviours ==
    [kind : {"notfound", "oserror"}, code : {0}, out : {""}, err : {""},
     child : {FALSE}]
    \cup [kind : {"hang"}, code : {0}, out : {""}, err : {""}, child : BOOLEAN]
    \cup [kind : {"exit"}, code : ExitCodes, out : Texts, err : Texts,
          child : {FALSE}]
    \cup [kind : {"undecodable"}, code : ExitCodes, out : {""}, err : {"\\xff"},
          child : {FALSE}]

\* settings.ALLOW_EXEC as the environment sets it: "0/1 to enable /execute"
AllowExec == {0, 1}

\* scenario names of a /playwright request: the three that
\* generate_playwright_script knows, and one it does not
Registered == {"navigate", "xss_test", "sql_injection_test"}
Scenarios == Registered \cup {"bogus"}
\* The url and the payload of a /playwright request are texts, written as
\* sequences of pieces; Quote is the double-quote character, which the
\* request model does not forbid.  A payload left out is None, which the
\* f-string writes as the text None.
Quote == "\""
\* Surrogate is a lone surrogate code point, which a JSON body can carry
\* (as \ud800) and a text file cannot be written with.
Surrogate == "\\ud800"
Urls == {<<"http://t">>, <<"http://u">>,
         <<"http://t", Quote, ");evil();(", Quote>>,
         <<"http://t/", Surrogate>>}
Payloads == {<<"None">>, <<"p", Quote, "+evil()+", Quote>>}
\* what take_screenshot meets: is DISPLAY set, do xwd and convert both
\* succeed, can the fallback image be made
Screens == [display : BOOLEAN, xwd : BOOLEAN, pil : BOOLEAN]

\* Output of a scan tool, as far as the parsers look at it:
\*   not_json       no JSON and no leading brace (also the empty output)
\*   brace_garbage  starts with a brace and is no JSON
\*   list           JSON whose top level is a list
\*   dict           a JSON object with other keys, whose result list (key
\*                  "results" in the tools' JSON, "runs" in SARIF) is absent,
\*                  a number, or a list of entries
\* An entry is a finding (an object) or "bad" (a number in its place).
Entries == {"f1", "f2", "bad"}
EntrySeqs == UNION {[1..n -> Entries] : n \in 0..MaxFindings}
EmptyOut == [kind |-> "not_json", key |-> "absent", items |-> <<>>]
Outputs ==
    [kind : {"not_json", "brace_garbage", "list"}, key : {"absent"}, items : {<<>>}]
    \cup [kind : {"dict"}, key : {"absent", "scalar"}, items : {<<>>}]
    \cup [kind : {"dict"}, key : {"list"}, items : EntrySeqs]
\* what a tool killed at its timeout has written: nothing, or a cut-off object
Truncated == [kind : {"not_json", "brace_garbage"}, key : {"absent"}, items : {<<>>}]
\* what a scan tool does when it is run
ToolBehaviours ==
    [kind : {"notfound", "oserror"}, code : {0}, out : {EmptyOut}, err : {""}]
    \cup [kind : {"hang"}, code : {0}, out : Truncated, err : {""}]
    \cup [kind : {"exit"}, code : ToolCodes, out : Outputs, err : {""}]
\* the same for the SARIF adapters, which never look inside an entry
SarifBehaviours ==
    {b \in ToolBehaviours :
        /\ b.code \in {0, 1}
        /\ \A i \in 1..Len(b.out.items) : b.out.items[i] # "bad"}
\* an adapter of the /scan/static handler: is the tool on the path, and
\* what it does when run
ToolInputs ==
    [avail : {FALSE}, beh : {[kind |-> "notfound", code |-> 0, out |-> EmptyOut, err |-> ""]}]
    \cup [avail : {TRUE}, beh : ToolBehaviours]
\* the repository_path of a static scan and the target_url of a sqlmap
\* scan; "" stands for the field left out (None) or empty, which the
\* handlers' "if not ..." treats alike
RepoPaths == {"", "/repo"}
TargetUrls == {"", "http://t/?id=1"}
\* what sqlmap does when it is run
SqlmapBehaviours ==
    {b \in ExecBehaviours : b.kind # "exit" /\ ~b.child}
    \cup [kind : {"exit"}, code : ExitCodes,
          out : {"", "sqlmap identified the following injection point"},
          err : Texts, child : {FALSE}]

\* arguments of post_findings.  A URL is None or a text, written as its
\* pieces: the scheme and host, and single slashes.  "None" stands for the
\* Python None of a token or a session id that was not supplied.
ControlPlaneUrls ==
    {[isNone |-> TRUE, text |-> <<>>]}
    \cup [isNone : {FALSE},
          text : {<<>>, <<"https://cp">>, <<"https://cp", "/">>,
                  <<"https://cp", "/", "/">>}]
Tokens == {"None", "", "tok"}
SessionIds == {"None", "", "s1"}
\* what becomes of a request that httpx sends to the collector
Deliveries == {"200", "500", "ConnectError", "TimeoutException"}

\* process ids the operating system hands out, and the request slots of
\* GET /execute/stream
Pids == {1, 2}
Streams == {1, 2}
\* the Popen objects the service creates, and the seconds of the wall clock
Objects == {1, 2}
Seconds == {0, 1}
\* process_id = f"proc_{int(time.time())}_{process.pid}"
Handles == Seconds \X Pids
\* return codes of a background process
BgCodes == {0, 1}

VARIABLES
    ex,     \* one invocation of stream_process and its consumer
    resp,   \* the result of the last blocking call or handler
    running_processes,  \* main.py:55  process_id -> Popen object
    procs,  \* the Popen objects of the background processes
    streams,\* the /execute/stream requests and their generators
    loop    \* the generator that is running on the event loop, or 0

bgvars == <<running_processes, procs, streams, loop>>
vars == <<ex, resp, running_processes, procs, streams, loop>>

NoResp == [op |-> "none"]

\* ===================================================== executor.py
\* str.rstrip("\n"): drop every trailing newline
RECURSIVE RStripNL(_)
RStripNL(s) ==
    IF Len(s) > 0 /\ s[Len(s)] = "\n" THEN RStripNL(SubSeq(s, 1, Len(s) - 1)) ELSE s

\* "\n".join(buf)
RECURSIVE JoinNL(_)
JoinNL(buf) ==
    IF Len(buf) = 0 THEN <<>>
    ELSE IF Len(buf) = 1 THEN buf[1]
    ELSE buf[1] \o <<"\n">> \o JoinNL(Tail(buf))

\* proc.stdout.readline() when it does not block: the next line, or the
\* empty string at end of file
ReadlineReady(e) == Len(e.pipe) > 0 \/ e.eof
Readline(e) == IF Len(e.pipe) > 0 THEN Head(e.pipe) ELSE <<>>
\* readline raises ValueError for a line over the reader's limit
OverLimit(line) == Len(line) > 0 /\ line[1] = "LONG"

ExIdle ==
    [pc |-> "idle", consumer |-> "stream", timeout |-> NoTimeout,
     proc |-> "none", code |-> 0, killed |-> FALSE, eof |-> FALSE,
     pipe |-> <<>>, written |-> <<>>, cur |-> <<>>, buf |-> <<>>,
     sinceRead |-> 0, grace |-> 0, elapsed |-> 0,
     cause |-> "none", result |-> [kind |-> "none"]]

\* the except branch of the finally block: proc.kill(); await proc.wait()
\* (KillAndReap_Skipped is that branch with both statements left out)
KillAndReap_Skipped(e) == e
KillAndReap(e) == [e EXCEPT !.proc = "exited", !.code = KillCode, !.killed = TRUE, !.eof = TRUE]

\* run_capture's return statement
RunCaptureReturn(e) == [kind |-> "return", code |-> 0, text |-> JoinNL(e.buf)]

\* what the consumer sees when the generator has finished
Finish(e) ==
    [e EXCEPT !.pc = "done",
              !.result =
                 IF e.consumer # "run_capture" THEN [kind |-> "closed"]
                 ELSE IF e.cause = "eof" THEN RunCaptureReturn(e)
                 ELSE [kind |-> "raise", exc |-> e.cause]]

\* nothing is in progress: the next invocation can begin
Idle == ex.pc = "idle" /\ resp = NoResp

\* first __anext__: create_subprocess_exec spawns the process, or raises
\* (a missing executable; an asyncio that rejects text=True raises here on
\* every call, before any process exists)
ExStart(c, t, ok) ==
    /\ Idle
    /\ ex' = IF ok
             THEN [ExIdle EXCEPT !.pc = "read", !.consumer = c, !.timeout = t,
                                 !.proc = "running"]
             ELSE Finish([ExIdle EXCEPT !.consumer = c, !.timeout = t,
                                        !.cause = "spawn_error"])
    /\ UNCHANGED <<resp, bgvars>>

\* the consumer drops the finished generator
ExRelease ==
    /\ ex.pc = "done"
    /\ ex' = ExIdle
    /\ UNCHANGED <<resp, bgvars>>

\* line = await wait_for(readline(), timeout); if not line: break; yield.
\* A line over the limit makes readline drop what it holds and raise
\* ValueError, which passes through the finally block to the consumer
ExReadLine ==
    /\ ex.pc = "read"
    /\ ReadlineReady(ex)
    /\ LET line == Readline(ex) IN
       IF Len(line) = 0
       THEN ex' = [ex EXCEPT !.pc = "wait", !.cause = "eof", !.grace = 0]
       ELSE IF OverLimit(line)
       THEN ex' = [ex EXCEPT !.pc = "wait", !.cause = "ValueError", !.grace = 0,
                             !.pipe = <<>>]
       ELSE ex' = [ex EXCEPT !.pc = "yield", !.cur = RStripNL(line),
                             !.pipe = Tail(ex.pipe)]
    /\ UNCHANGED <<resp, bgvars>>

\* wait_for raises TimeoutError: control passes to the finally block
ExReadTimeout ==
    /\ ex.pc = "read"
    /\ ex.timeout # NoTimeout
    /\ ex.sinceRead >= ex.timeout
    /\ ~ReadlineReady(ex)
    /\ ex' = [ex EXCEPT !.pc = "wait", !.cause = "TimeoutError", !.grace = 0]
    /\ UNCHANGED <<resp, bgvars>>

\* the consumer asks for the next line (run_capture: buf.append(line))
ExResume ==
    /\ ex.pc = "yield"
    /\ ex' = [ex EXCEPT !.pc = "read", !.buf = Append(ex.buf, ex.cur),
                        !.cur = <<>>, !.sinceRead = 0]
    /\ UNCHANGED <<resp, bgvars>>

\* the consumer closes the generator at the yield: GeneratorExit
ExClose ==
    /\ ex.pc = "yield"
    /\ ex.consumer = "stream"
    /\ ex' = [ex EXCEPT !.pc = "wait", !.cause = "closed", !.grace = 0]
    /\ UNCHANGED <<resp, bgvars>>

\* finally: await wait_for(proc.wait(), timeout=3) returns
ExWaitReturns ==
    /\ ex.pc = "wait"
    /\ ex.proc = "exited"
    /\ ex' = Finish(ex)
    /\ UNCHANGED <<resp, bgvars>>

\* finally: the 3 seconds are over: kill and reap
ExWaitTimeout ==
    /\ ex.pc = "wait"
    /\ ex.proc = "running"
    /\ ex.grace >= Grace
    /\ ex' = Finish(KillAndReap(ex))
    /\ UNCHANGED <<resp, bgvars>>

\* the process writes a line to its standard output
ProcWrite(l) ==
    /\ ex.proc = "running"
    /\ ~ex.eof
    /\ Len(ex.written) < MaxLines
    /\ ex' = [ex EXCEPT !.pipe = Append(ex.pipe, l), !.written = Append(ex.written, l)]
    /\ UNCHANGED <<resp, bgvars>>

\* the process closes its standard output and keeps running
ProcCloseStdout ==
    /\ ex.proc = "running"
    /\ ~ex.eof
    /\ ex' = [ex EXCEPT !.eof = TRUE]
    /\ UNCHANGED <<resp, bgvars>>

\* the process ends on its own
ProcExit(c) ==
    /\ ex.proc = "running"
    /\ ex' = [ex EXCEPT !.proc = "exited", !.code = c, !.eof = TRUE]
    /\ UNCHANGED <<resp, bgvars>>

\* a timer that is due (readline's timeout, the 3 seconds of the finally
\* block) fires before the clock moves on
TimerDue ==
    \/ ex.pc = "read" /\ ex.timeout # NoTimeout /\ ex.sinceRead >= ex.timeout
    \/ ex.pc = "wait" /\ ex.grace >= Grace
\* readline returns at once when a line or the end of file is there
ReadDue == ex.pc = "read" /\ ReadlineReady(ex)
\* run_capture appends the line and asks for the next one at once
ResumeDue == ex.pc = "yield" /\ ex.consumer = "run_capture"

\* one second passes while the process runs
Tick ==
    /\ ex.proc = "running"
    /\ ex.elapsed < MaxTime
    /\ ~TimerDue
    /\ ~ReadDue
    /\ ~ResumeDue
    /\ ex' = [ex EXCEPT !.elapsed = ex.elapsed + 1,
                        !.sinceRead = IF ex.pc = "read" /\ ex.timeout # NoTimeout
                                      THEN ex.sinceRead + 1 ELSE ex.sinceRead,
                        !.grace = IF ex.pc = "wait" THEN ex.grace + 1 ELSE ex.grace]
    /\ UNCHANGED <<resp, bgvars>>

\* ============================================ blocking calls: subprocess
\* subprocess.run(..., timeout=t): Popen raises, or the child ends and its
\* return code and output are returned (or, under text=True, decoding the
\* output raises), or TimeoutExpired is raised after run() has killed and
\* reaped the child.  spawned and alive count the
\* processes the call started and those still running when it returns:
\* kill() reaches the process Popen started, so under shell=True a command
\* the shell runs as its own child outlives the call.
SubprocessRun(beh, shell) ==
    CASE beh.kind = "notfound" ->
           [raised |-> "FileNotFoundError", spawned |-> 0, alive |-> 0]
      [] beh.kind = "oserror" ->
           [raised |-> "OSError", spawned |-> 0, alive |-> 0]
      [] beh.kind = "exit" ->
           [raised |-> "none", returncode |-> beh.code, stdout |-> beh.out,
            stderr |-> beh.err, spawned |-> 1, alive |-> 0]
      [] beh.kind = "undecodable" ->
           [raised |-> "UnicodeDecodeError", spawned |-> 1, alive |-> 0]
      [] beh.kind = "hang" ->
           [raised |-> "TimeoutExpired", spawned |-> 1,
            alive |-> IF shell /\ beh.child THEN 1 ELSE 0]

\* ------------------------------------- sandbox_api/main.py  POST /execute
\* the synchronous branch of execute_command and its two except clauses;
\* allow is the ALLOW_EXEC setting in force, which the handler does not read
ExecuteBody(cmd, r) ==
    CASE r.raised = "none" ->
           [success |-> r.returncode = 0, returncode |-> r.returncode,
            stdout |-> r.stdout, stderr |-> r.stderr, command |-> cmd]
      [] r.raised = "TimeoutExpired" ->
           [success |-> FALSE, error |-> "Command timed out", command |-> cmd]
      [] OTHER ->
           [success |-> FALSE, error |-> r.raised, command |-> cmd]

ExecuteSync(beh, allow) ==
    /\ LET r == SubprocessRun(beh, TRUE) IN
       resp' = [op |-> "execute", beh |-> beh, allow_exec |-> allow, http |-> 200,
                body |-> ExecuteBody("cmd", r),
                spawned |-> r.spawned, alive |-> r.alive]
    /\ UNCHANGED <<ex, bgvars>>

\* ------------------------------------------- app/main.py  POST /command
\* the synchronous branch of execute_command and its two except clauses
CommandResult(r) ==
    CASE r.raised = "none" ->
           [success |-> r.returncode = 0, stdout |-> r.stdout,
            stderr |-> r.stderr, exit_code |-> r.returncode, error |-> "None"]
      [] r.raised = "TimeoutExpired" ->
           [success |-> FALSE, stdout |-> "", stderr |-> "Command timed out",
            exit_code |-> Sentinel, error |-> "Command execution timed out"]
      [] OTHER ->
           [success |-> FALSE, stdout |-> "", stderr |-> r.raised,
            exit_code |-> Sentinel, error |-> "Command execution failed"]

CommandSync(beh) ==
    /\ LET r == SubprocessRun(beh, TRUE) IN
       resp' = [op |-> "command", beh |-> beh, http |-> 200,
                body |-> CommandResult(r),
                spawned |-> r.spawned, alive |-> r.alive]
    /\ UNCHANGED <<ex, bgvars>>

\* ---------------------------------- sandbox_api/main.py  POST /playwright
\* a value between double quotes, as the templates write "{url}"
Lit(v) == <<Quote>> \o v \o <<Quote>>

\* generate_playwright_script: the text of the script, as pieces.  The
\* f-string puts url and payload into the text wherever the template names
\* them; the final else builds the generic script for every other name.
generate_playwright_script(scenario, url, payload) ==
    CASE scenario = "navigate" ->
           <<"print(f">> \o Lit(<<"Navigating to ">> \o url) \o <<")">>
           \o <<"page.goto(">> \o Lit(url) \o <<")">>
      [] scenario = "xss_test" ->
           <<"print(f">> \o Lit(<<"Testing XSS on ">> \o url \o payload) \o <<")">>
           \o <<"page.goto(">> \o Lit(url) \o <<")">>
           \o <<"input_elem.fill(">> \o Lit(payload) \o <<")">>
           \o <<"test_url = ">> \o Lit(url) \o <<" + f">>
           \o Lit(<<"test=">> \o payload)
      [] scenario = "sql_injection_test" ->
           <<"print(f">> \o Lit(<<"Testing SQL injection on ">> \o url \o payload)
           \o <<")">>
           \o <<"page.goto(">> \o Lit(url) \o <<")">>
           \o <<"input_elem.fill(">> \o Lit(payload) \o <<")">>
      [] OTHER ->
           <<"print(f">> \o Lit(<<"Running scenario: ", scenario>>) \o <<")">>
           \o <<"page.goto(">> \o Lit(url) \o <<")">>

\* what python3 makes of a script text: a double quote opens a string
\* literal and the next one closes it; the pieces outside the literals
\* are the code that runs, the pieces inside are data
RECURSIVE Scan(_, _)
Scan(text, inLit) ==
    IF text = <<>> THEN <<>>
    ELSE IF Head(text) = Quote THEN <<Quote>> \o Scan(Tail(text), ~inLit)
    ELSE IF inLit THEN Scan(Tail(text), inLit)
    ELSE <<Head(text)>> \o Scan(Tail(text), inLit)
Code(text) == Scan(text, FALSE)

\* take_screenshot: the desktop through xwd and convert, else the
\* fallback image; an exception outside the xwd block becomes a 500
take_screenshot(screen) ==
    IF screen.display /\ screen.xwd THEN [raised |-> "none", body |-> "desktop"]
    ELSE IF screen.pil THEN [raised |-> "none", body |-> "black"]
    ELSE [raised |-> "HTTPException"]

\* base64.b64encode(body).decode()
B64(body) == IF body = "desktop" THEN "ZGVza3RvcA==" ELSE "YmxhY2s="

\* tmp.write(script_content) succeeds: the text can be encoded
Encodes(text) == \A i \in DOMAIN text : text[i] # Surrogate

\* the temporary file is written and python3 is run on it; a write that
\* raises leaves the with block before the inner try is entered
RunScript(script, beh) ==
    IF Encodes(script) THEN SubprocessRun(beh, FALSE)
    ELSE [raised |-> "UnicodeEncodeError", spawned |-> 0, alive |-> 0]

\* does the file NamedTemporaryFile(delete=False) created exist when the
\* handler returns: the finally of the inner try unlinks it on every way
\* out of subprocess.run; a failed write never reaches that try
\* (ScriptFileLeft_NoFinally unlinks after a normal return only)
ScriptFileLeft_NoFinally(script, raised) == ~Encodes(script) \/ raised # "none"
ScriptFileLeft(script, raised) == ~Encodes(script)

\* run_playwright_scenario: write the script, run python3 on it, take the
\* screenshot inside its own try, unlink the script; any other exception
\* becomes an error body.  (PlaywrightResponse_ShotUnguarded is the handler
\* without the try around the screenshot.)
PlaywrightResponse_ShotUnguarded(scenario, url, payload, beh, screen) ==
    LET script == generate_playwright_script(scenario, url, payload)
        r == RunScript(script, beh)
        shot == take_screenshot(screen)
    IN  [op |-> "playwright", scenario |-> scenario, url |-> url,
         payload |-> payload, beh |-> beh, screen |-> screen,
         script |-> script, argv |-> <<"python3", "script_path">>, http |-> 200,
         body |-> IF r.raised = "none" /\ shot.raised = "none"
                  THEN [success |-> r.returncode = 0,
                        scenario |-> scenario, url |-> url,
                        stdout |-> r.stdout, stderr |-> r.stderr,
                        screenshot_b64 |-> B64(shot.body),
                        returncode |-> r.returncode]
                  ELSE [success |-> FALSE,
                        error |-> IF r.raised # "none" THEN r.raised
                                  ELSE shot.raised,
                        scenario |-> scenario, url |-> url],
         tmpfile |-> ScriptFileLeft(script, r.raised),
         spawned |-> r.spawned, alive |-> r.alive]
PlaywrightResponse(scenario, url, payload, beh, screen) ==
    LET script == generate_playwright_script(scenario, url, payload)
        r == RunScript(script, beh)
        shot == take_screenshot(screen)
    IN  [op |-> "playwright", scenario |-> scenario, url |-> url,
         payload |-> payload, beh |-> beh, screen |-> screen,
         script |-> script, argv |-> <<"python3", "script_path">>, http |-> 200,
         body |-> IF r.raised = "none"
                  THEN [success |-> r.returncode = 0,
                        scenario |-> scenario, url |-> url,
                        stdout |-> r.stdout, stderr |-> r.stderr,
                        screenshot_b64 |-> IF shot.raised = "none"
                                           THEN B64(shot.body) ELSE "None",
                        returncode |-> r.returncode]
                  ELSE [success |-> FALSE, error |-> r.raised,
                        scenario |-> scenario, url |-> url],
         tmpfile |-> ScriptFileLeft(script, r.raised),
         spawned |-> r.spawned, alive |-> r.alive]

RunScenario(scenario, url, payload, beh, screen) ==
    /\ resp' = PlaywrightResponse(scenario, url, payload, beh, screen)
    /\ UNCHANGED <<ex, bgvars>>

\* -------------------------------- sandbox_api/main.py  POST /scan/static
\* json.loads(stdout), data.get("results", []) and the loop over the
\* findings: the exception raised, or the findings appended
ParseResults(tool, o) ==
    CASE o.kind \in {"not_json", "brace_garbage"} ->
           [exc |-> "JSONDecodeError", findings |-> <<>>]
      [] o.kind = "list" -> [exc |-> "AttributeError", findings |-> <<>>]
      [] o.key = "absent" -> [exc |-> "none", findings |-> <<>>]
      [] o.key = "scalar" -> [exc |-> "TypeError", findings |-> <<>>]
      [] OTHER ->
           IF \E i \in 1..Len(o.items) : o.items[i] = "bad"
           THEN [exc |-> "AttributeError", findings |-> <<>>]
           ELSE [exc |-> "none",
                 findings |-> [i \in 1..Len(o.items) |->
                                  [tool |-> tool, type |-> o.items[i]]]]

\* the return codes after which the handler parses a tool's output
Accepted(tool) == IF tool = "semgrep" THEN {0} ELSE {0, 1}

\* one "if check_tool_available(tool): ..." block of run_static_scan, from
\* the results so far; exc is the exception that left the handler's try
\* (ScanStep_Unchecked is the block without its check_tool_available test)
ScanStep_Unchecked(st, tool, inp) ==
    IF st.exc # "none" THEN st
    ELSE LET r == SubprocessRun(inp.beh, FALSE)
             st1 == [st EXCEPT !.invoked = Append(st.invoked, tool),
                               !.spawned = st.spawned + r.spawned,
                               !.alive = st.alive + r.alive]
         IN  IF r.raised # "none" THEN [st1 EXCEPT !.exc = r.raised]
             ELSE IF r.returncode \notin Accepted(tool) THEN st1
             ELSE LET p == ParseResults(tool, r.stdout) IN
                  IF p.exc = "JSONDecodeError" THEN st1
                  ELSE IF p.exc # "none" THEN [st1 EXCEPT !.exc = p.exc]
                  ELSE [st1 EXCEPT !.findings = st.findings \o p.findings,
                                   !.tools_used = Append(st.tools_used, tool)]
\* (ScanStep_NameFirst is the block with tools_used.append before the try)
ScanStep_NameFirst(st, tool, inp) ==
    IF st.exc # "none" THEN st
    ELSE IF ~inp.avail THEN [st EXCEPT !.checked = Append(st.checked, tool)]
    ELSE LET r == SubprocessRun(inp.beh, FALSE)
             st1 == [st EXCEPT !.checked = Append(st.checked, tool),
                               !.invoked = Append(st.invoked, tool),
                               !.spawned = st.spawned + r.spawned,
                               !.alive = st.alive + r.alive]
         IN  IF r.raised # "none" THEN [st1 EXCEPT !.exc = r.raised]
             ELSE IF r.returncode \notin Accepted(tool) THEN st1
             ELSE LET p == ParseResults(tool, r.stdout)
                      st2 == [st1 EXCEPT !.tools_used = Append(st.tools_used, tool)]
                  IN
                  IF p.exc = "JSONDecodeError" THEN st2
                  ELSE IF p.exc # "none" THEN [st2 EXCEPT !.exc = p.exc]
                  ELSE [st2 EXCEPT !.findings = st.findings \o p.findings]
ScanStep(st, tool, inp) ==
    IF st.exc # "none" THEN st
    ELSE IF ~inp.avail THEN [st EXCEPT !.checked = Append(st.checked, tool)]
    ELSE LET r == SubprocessRun(inp.beh, FALSE)
             st1 == [st EXCEPT !.checked = Append(st.checked, tool),
                               !.invoked = Append(st.invoked, tool),
                               !.spawned = st.spawned + r.spawned,
                               !.alive = st.alive + r.alive]
         IN  IF r.raised # "none" THEN [st1 EXCEPT !.exc = r.raised]
             ELSE IF r.returncode \notin Accepted(tool) THEN st1
             ELSE LET p == ParseResults(tool, r.stdout) IN
                  IF p.exc = "JSONDecodeError" THEN st1
                  ELSE IF p.exc # "none" THEN [st1 EXCEPT !.exc = p.exc]
                  ELSE [st1 EXCEPT !.findings = st.findings \o p.findings,
                                   !.tools_used = Append(st.tools_used, tool)]

\* results as the handler sets it up before the first tool (ScanStart_Listed
\* is a results that names both tools from the start)
ScanStart_Listed ==
    [findings |-> <<>>, tools_used |-> <<"semgrep", "bandit">>, invoked |-> <<>>,
     checked |-> <<>>, exc |-> "none", spawned |-> 0, alive |-> 0]
ScanStart ==
    [findings |-> <<>>, tools_used |-> <<>>, invoked |-> <<>>, checked |-> <<>>,
     exc |-> "none", spawned |-> 0, alive |-> 0]

\* run_static_scan: 400 without a path, else semgrep, then bandit; an
\* exception that leaves the try becomes a 500.  checked and invoked are
\* the tools check_tool_available was called for and the tools run.
\* (StaticScan_ValidatedLate is the handler with its path test moved behind
\* the tools.)
StaticScan_ValidatedLate(path, sem, ban) ==
    LET st == ScanStep(ScanStep(ScanStart, "semgrep", sem), "bandit", ban)
    IN  [op |-> "scan_static", path |-> path, sem |-> sem, ban |-> ban,
         http |-> IF path = "" THEN 400 ELSE IF st.exc = "none" THEN 200 ELSE 500,
         body |-> IF path = "" THEN [detail |-> "repository_path required"]
                  ELSE IF st.exc = "none"
                  THEN [scan_type |-> "static", repository_path |-> path,
                        findings |-> st.findings, tools_used |-> st.tools_used]
                  ELSE [detail |-> st.exc],
         checked |-> st.checked, invoked |-> st.invoked,
         spawned |-> st.spawned, alive |-> st.alive]
StaticScan(path, sem, ban) ==
    IF path = ""
    THEN [op |-> "scan_static", path |-> path, sem |-> sem, ban |-> ban,
          http |-> 400, body |-> [detail |-> "repository_path required"],
          checked |-> <<>>, invoked |-> <<>>, spawned |-> 0, alive |-> 0]
    ELSE LET st == ScanStep(ScanStep(ScanStart, "semgrep", sem), "bandit", ban)
         IN  [op |-> "scan_static", path |-> path, sem |-> sem, ban |-> ban,
              http |-> IF st.exc = "none" THEN 200 ELSE 500,
              body |-> IF st.exc = "none"
                       THEN [scan_type |-> "static", repository_path |-> path,
                             findings |-> st.findings, tools_used |-> st.tools_used]
                       ELSE [detail |-> st.exc],
              checked |-> st.checked, invoked |-> st.invoked,
              spawned |-> st.spawned, alive |-> st.alive]

RunStaticScan(path, sem, ban) ==
    /\ resp' = StaticScan(path, sem, ban)
    /\ UNCHANGED <<ex, bgvars>>

\* -------------------------------- sandbox_api/main.py  POST /scan/sqlmap
\* the marker run_sqlmap_scan looks for in sqlmap's standard output
Identified(out) == out = "sqlmap identified the following injection point"

\* the command line: the fixed options, then the two optional flags
SqlmapCmd(target, crawl, forms) ==
    <<"sqlmap", "-u", target, "--batch">>
        \o (IF crawl THEN <<"--crawl=1">> ELSE <<>>)
        \o (IF forms THEN <<"--forms">> ELSE <<>>)

\* run_sqlmap_scan: 400 without a target, else one run of sqlmap; an
\* exception that leaves the try becomes a 500.  The texts of the model
\* are shorter than the 2000 and 1000 characters the response keeps.
SqlmapScan(target, crawl, forms, beh) ==
    IF target = ""
    THEN [op |-> "scan_sqlmap", target |-> target, beh |-> beh,
          http |-> 400, body |-> [detail |-> "target_url required"],
          cmd |-> <<>>, checked |-> <<>>, spawned |-> 0, alive |-> 0]
    ELSE LET r == SubprocessRun(beh, FALSE)
         IN  [op |-> "scan_sqlmap", target |-> target, beh |-> beh,
              http |-> IF r.raised = "none" THEN 200 ELSE 500,
              body |-> IF r.raised = "none"
                       THEN [scan_type |-> "sqlmap", target_url |-> target,
                             vulnerabilities |->
                                 IF Identified(r.stdout)
                                 THEN <<[type |-> "sql_injection", url |-> target,
                                         details |-> r.stdout]>>
                                 ELSE <<>>,
                             stdout |-> r.stdout, stderr |-> r.stderr,
                             success |-> r.returncode = 0]
                       ELSE [detail |-> r.raised],
              cmd |-> SqlmapCmd(target, crawl, forms), checked |-> <<>>,
              spawned |-> r.spawned, alive |-> r.alive]

RunSqlmapScan(target, crawl, forms, beh) ==
    /\ resp' = SqlmapScan(target, crawl, forms, beh)
    /\ UNCHANGED <<ex, bgvars>>

\* ------------------------------------ sandbox_api/scanners/static_runner.py
\* _run: Popen, communicate(timeout); on TimeoutExpired kill and collect;
\* FileNotFoundError becomes (1, "", "Tool ... not found")
Run_(beh) ==
    CASE beh.kind = "notfound" ->
           [raised |-> "none", returncode |-> 1, out |-> EmptyOut,
            err |-> "Tool not found", spawned |-> 0, alive |-> 0]
      [] beh.kind = "oserror" ->
           [raised |-> "OSError", spawned |-> 0, alive |-> 0]
      [] beh.kind = "exit" ->
           [raised |-> "none", returncode |-> beh.code, out |-> beh.out,
            err |-> beh.err, spawned |-> 1, alive |-> 0]
      [] beh.kind = "hang" ->
           [raised |-> "none", returncode |-> KillCode, out |-> beh.out,
            err |-> beh.err, spawned |-> 1, alive |-> 0]

RunTool(beh) ==
    /\ LET r == Run_(beh) IN
       resp' = [op |-> "_run", beh |-> beh, result |-> r,
                spawned |-> r.spawned, alive |-> r.alive]
    /\ UNCHANGED <<ex, bgvars>>

None == [ty |-> "none"]
\* out.strip().startswith("{")
StartsWithBrace(o) == o.kind \in {"brace_garbage", "dict"}
\* json.loads(out): the object, or the exception
JsonLoads(o) ==
    CASE o.kind \in {"not_json", "brace_garbage"} -> [exc |-> "JSONDecodeError"]
      [] o.kind = "list" -> [exc |-> "none", value |-> [ty |-> "list"]]
      [] OTHER -> [exc |-> "none",
                   value |-> [ty |-> "dict", key |-> o.key, items |-> o.items]]

\* the body shared by semgrep_sarif, bandit_sarif and pip_audit_sarif:
\* run the tool, load its output if it starts with a brace, None on any
\* exception
ToolSarif(beh) ==
    LET r == Run_(beh) IN
    IF r.raised # "none" THEN None
    ELSE IF ~StartsWithBrace(r.out) THEN None
    ELSE LET j == JsonLoads(r.out) IN
         IF j.exc # "none" THEN None ELSE j.value

semgrep_sarif(beh) == ToolSarif(beh)
bandit_sarif(beh) == ToolSarif(beh)
\* pip_audit_sarif returns None without running when requirements.txt is missing
pip_audit_sarif(req, beh) == IF ~req THEN None ELSE ToolSarif(beh)

\* run_all: the three adapters in order, keeping each result that is truthy
\* (run_all_BanditFirst is the loop over a list with bandit_sarif first)
run_all_BanditFirst(sem, ban, req, pip) ==
    LET Keep(res, sarif) == IF sarif # None THEN Append(res, sarif) ELSE res
    IN  Keep(Keep(Keep(<<>>, bandit_sarif(ban)), semgrep_sarif(sem)),
             pip_audit_sarif(req, pip))
run_all(sem, ban, req, pip) ==
    LET Keep(res, sarif) == IF sarif # None THEN Append(res, sarif) ELSE res
    IN  Keep(Keep(Keep(<<>>, semgrep_sarif(sem)), bandit_sarif(ban)),
             pip_audit_sarif(req, pip))

RunAll(sem, ban, req, pip) ==
    /\ resp' = [op |-> "run_all", sem |-> sem, ban |-> ban, req |-> req, pip |-> pip,
                raised |-> "none", value |-> run_all(sem, ban, req, pip),
                invoked |-> <<"semgrep", "bandit", "pip-audit">>,
                spawned |-> Run_(sem).spawned + Run_(ban).spawned
                            + (IF req THEN Run_(pip).spawned ELSE 0),
                alive |-> Run_(sem).alive + Run_(ban).alive
                          + (IF req THEN Run_(pip).alive ELSE 0)]
    /\ UNCHANGED <<ex, bgvars>>

\* ------------------------------------- sandbox_api/scanners/sarif_merge.py
\* s.get("runs", []) as base["runs"].extend takes it: the entries, or the
\* TypeError for a value that cannot be iterated
RunsOf(s) ==
    CASE s.key = "absent" -> [exc |-> "none", runs |-> <<>>]
      [] s.key = "scalar" -> [exc |-> "TypeError", runs |-> <<>>]
      [] OTHER -> [exc |-> "none", runs |-> s.items]

RECURSIVE MergeRuns(_)
MergeRuns(sarifs) ==
    IF Len(sarifs) = 0 THEN [exc |-> "none", runs |-> <<>>]
    ELSE LET h == RunsOf(Head(sarifs))
             t == MergeRuns(Tail(sarifs))
         IN  IF h.exc # "none" THEN h
             ELSE IF t.exc # "none" THEN t
             ELSE [exc |-> "none", runs |-> h.runs \o t.runs]

\* merge_sarif: version 2.1.0 and the runs of every input, in input order
\* (merge_sarif_NoRunsWhenEmpty leaves the runs key out when there are none;
\* merge_sarif_Dedup keeps only the first of equal entries)
\* (merge_sarif_FirstRunOnly takes only the first entry of each input)
RECURSIVE FirstRuns(_)
FirstRuns(sarifs) ==
    IF Len(sarifs) = 0 THEN <<>>
    ELSE LET runs == RunsOf(Head(sarifs)).runs
         IN  (IF runs = <<>> THEN <<>> ELSE <<Head(runs)>>) \o FirstRuns(Tail(sarifs))
merge_sarif_FirstRunOnly(sarifs) ==
    LET m == MergeRuns(sarifs) IN
    IF m.exc # "none" THEN [raised |-> m.exc]
    ELSE [raised |-> "none", version |-> "2.1.0", runs |-> FirstRuns(sarifs)]
RECURSIVE Dedup(_)
Dedup(runs) ==
    IF runs = <<>> THEN <<>>
    ELSE LET front == Dedup(SubSeq(runs, 1, Len(runs) - 1))
             last == runs[Len(runs)]
         IN  IF \E i \in 1..Len(front) : front[i] = last THEN front
             ELSE Append(front, last)
merge_sarif_Dedup(sarifs) ==
    LET m == MergeRuns(sarifs) IN
    IF m.exc # "none" THEN [raised |-> m.exc]
    ELSE [raised |-> "none", version |-> "2.1.0", runs |-> Dedup(m.runs)]
merge_sarif_NoRunsWhenEmpty(sarifs) ==
    LET m == MergeRuns(sarifs) IN
    IF m.exc # "none" THEN [raised |-> m.exc]
    ELSE IF m.runs = <<>> THEN [raised |-> "none", version |-> "2.1.0"]
    ELSE [raised |-> "none", version |-> "2.1.0", runs |-> m.runs]
merge_sarif(sarifs) ==
    LET m == MergeRuns(sarifs) IN
    IF m.exc # "none" THEN [raised |-> m.exc]
    ELSE [raised |-> "none", version |-> "2.1.0", runs |-> m.runs]

\* a report merge_sarif returned, given to merge_sarif as an input: a dict
\* whose runs key holds the list of its entries
AsInput(report) == [ty |-> "dict", key |-> "list", items |-> report.runs]

\* control_plane_url.rstrip('/')
RECURSIVE RStripSlash(_)
RStripSlash(t) ==
    IF Len(t) > 0 /\ t[Len(t)] = "/" THEN RStripSlash(SubSeq(t, 1, Len(t) - 1))
    ELSE t

\* client.post(url, ...) and response.raise_for_status(): httpx refuses a
\* URL without a scheme before anything is sent; else one request goes out
\* and its fate decides the exception
ClientPost(req, net) ==
    IF Len(req.url) = 0 \/ req.url[1] # "https://cp"
    THEN [exc |-> "UnsupportedProtocol", requests |-> <<>>]
    ELSE [exc |-> CASE net = "200" -> "none"
                    [] net = "500" -> "HTTPStatusError"
                    [] OTHER -> net,
          requests |-> <<req>>]

\* the body of the try block of post_findings
PostBody(url, token, session_id, net) ==
    IF url.isNone THEN [exc |-> "AttributeError", requests |-> <<>>]
    ELSE ClientPost([url |-> RStripSlash(url.text) \o <<"/api/findings">>,
                     bearer |-> IF token \in {"None", ""} THEN <<>> ELSE <<token>>,
                     session_id |-> session_id, source |-> "sast"], net)

\* the exceptions "except Exception" catches: every one the body can raise
\* (Caught_HttpOnly is a clause written as "except httpx.HTTPError")
Caught_HttpOnly(exc) ==
    exc \in {"UnsupportedProtocol", "HTTPStatusError", "ConnectError",
             "TimeoutException"}
Caught(exc) ==
    exc \in {"AttributeError", "UnsupportedProtocol", "HTTPStatusError",
             "ConnectError", "TimeoutException"}

\* post_findings: the try block, and the except clause that prints
\* (post_findings_Retry sends the request again after a failure)
post_findings_Retry(url, token, session_id, net) ==
    LET b == PostBody(url, token, session_id, net) IN
    [raised |-> "none", printed |-> b.exc # "none",
     requests |-> IF b.exc # "none" THEN b.requests \o b.requests ELSE b.requests]
post_findings(url, token, session_id, net) ==
    LET b == PostBody(url, token, session_id, net) IN
    IF b.exc = "none" THEN [raised |-> "none", printed |-> FALSE, requests |-> b.requests]
    ELSE IF Caught(b.exc)
         THEN [raised |-> "none", printed |-> TRUE, requests |-> b.requests]
         ELSE [raised |-> b.exc, printed |-> FALSE, requests |-> b.requests]

PostFindings(url, token, session_id, net) ==
    /\ resp' = [op |-> "post_findings", url |-> url, token |-> token,
                session_id |-> session_id, net |-> net,
                result |-> post_findings(url, token, session_id, net)]
    /\ UNCHANGED <<ex, bgvars>>

\* ============================== sandbox_api/main.py  background registry
NoProc == [st |-> "none", pid |-> 0, code |-> 0, out |-> 0, err |-> 0]
\* end: how a finished stream ended (its last event, or the disconnect)
NoStream == [pc |-> "idle", h |-> <<0, 0>>, o |-> 0, http |-> 0, end |-> "none"]


\* A Popen object lives while the registry or the generator of a stream
\* refers to it.  An object nothing refers to is dropped once its process
\* has been reaped; if its process has ended and was never polled, the
\* next Popen() reaps it (subprocess._cleanup).
Referenced(o, rp, st) ==
    \/ \E k \in DOMAIN rp : rp[k] = o
    \/ \E s \in Streams : st[s].o = o
Collect(pr, rp, st, atPopen) ==
    [o \in Objects |->
        IF /\ ~Referenced(o, rp, st)
           /\ (pr[o].st = "reaped" \/ (atPopen /\ pr[o].st = "zombie"))
        THEN NoProc ELSE pr[o]]

\* running_processes[process_id] = process
Insert(rp, h, o) == [k \in DOMAIN rp \cup {h} |-> IF k = h THEN o ELSE rp[k]]
\* if process_id in running_processes: del running_processes[process_id]
Remove(rp, h) == [k \in DOMAIN rp \ {h} |-> rp[k]]

\* int(time.time()) can return sec: the clock does not run backwards, so
\* it is not before the second of any process_id still held
ClockCanRead(sec) ==
    /\ \A k \in DOMAIN running_processes : k[1] <= sec
    /\ \A s \in Streams : streams[s].pc \notin {"idle", "done"} => streams[s].h[1] <= sec

\* POST /execute with background=True: Popen, build the process_id from the
\* clock and the pid, register the process, return at once.  The system
\* gives the new process any pid that no running or unreaped process holds.
BgSpawn(pid, sec) ==
    /\ loop = 0
    /\ ClockCanRead(sec)
    /\ LET swept == Collect(procs, running_processes, streams, TRUE)
           free == {o \in Objects : swept[o].st = "none"}
           h == <<sec, pid>>
       IN  /\ free # {}
           /\ pid \notin {swept[o].pid :
                           o \in {x \in Objects : swept[x].st \in {"running", "zombie"}}}
           /\ LET o == CHOOSE x \in free : \A y \in free : x <= y
                  rp == Insert(running_processes, h, o)
              IN  /\ running_processes' = rp
                  /\ procs' = Collect([swept EXCEPT ![o] =
                                          [NoProc EXCEPT !.st = "running", !.pid = pid]],
                                      rp, streams, FALSE)

BgExecute(pid, sec) ==
    /\ BgSpawn(pid, sec)
    /\ UNCHANGED <<ex, resp, streams, loop>>

\* the same request with the body it returns (main.py:166-171)
ExecuteBackground(pid, sec, allow) ==
    /\ resp = NoResp
    /\ BgSpawn(pid, sec)
    /\ resp' = [op |-> "execute_bg", allow_exec |-> allow, http |-> 200,
                body |-> [success |-> TRUE, process_id |-> <<sec, pid>>,
                          pid |-> pid,
                          message |-> "Process started in background"],
                spawned |-> 1]
    /\ UNCHANGED <<ex, streams, loop>>

\* ------------------------------------------- app/main.py  POST /command
\* background=True: Popen, and a CommandResult that carries the pid inside
\* its stdout text; the Popen object is kept nowhere
CommandBackground(pid) ==
    /\ resp = NoResp
    /\ resp' = [op |-> "command_bg", http |-> 200,
                body |-> [success |-> TRUE, stdout |-> <<"started", pid>>,
                          stderr |-> "", exit_code |-> 0, error |-> "None"],
                spawned |-> 1]
    /\ UNCHANGED <<ex, bgvars>>

\* GET /execute/stream/{process_id}: 404 for an unknown id, else look the
\* process up and hand generate() to the StreamingResponse
\* (StreamOpen_Unchecked is the handler without its test: the lookup of an
\* unknown id raises KeyError, a 500)
StreamOpen_Unchecked(s, h) ==
    /\ loop = 0
    /\ streams[s].pc = "idle"
    /\ \A t \in Streams : t < s => streams[t].pc # "idle"
    /\ streams' = [streams EXCEPT ![s] =
                      IF h \notin DOMAIN running_processes
                      THEN [NoStream EXCEPT !.pc = "done", !.http = 500]
                      ELSE [NoStream EXCEPT !.pc = "new", !.h = h, !.http = 200,
                                            !.o = running_processes[h]]]
    /\ UNCHANGED <<ex, resp, running_processes, procs, loop>>
StreamOpen(s, h) ==
    /\ loop = 0
    /\ streams[s].pc = "idle"
    /\ \A t \in Streams : t < s => streams[t].pc # "idle"
    /\ streams' = [streams EXCEPT ![s] =
                      IF h \notin DOMAIN running_processes
                      THEN [NoStream EXCEPT !.pc = "done", !.http = 404]
                      ELSE [NoStream EXCEPT !.pc = "new", !.h = h, !.http = 200,
                                            !.o = running_processes[h]]]
    /\ UNCHANGED <<ex, resp, running_processes, procs, loop>>

\* the slot of a finished request is free for the next request
StreamRelease(s) ==
    /\ loop = 0
    /\ streams[s].pc = "done"
    /\ streams' = [streams EXCEPT ![s] = NoStream]
    /\ UNCHANGED <<ex, resp, running_processes, procs, loop>>

\* while process.poll() is None: the generator starts, or wakes from
\* asyncio.sleep(0.1).  poll() reaps a process that has ended; the loop is
\* left and the exit event is yielded
GenPoll(s) ==
    /\ loop = 0
    /\ streams[s].pc \in {"new", "sleep"}
    /\ LET o == streams[s].o IN
       IF procs[o].st = "running"
       THEN /\ streams' = [streams EXCEPT ![s].pc = "read_out"]
            /\ loop' = s
            /\ UNCHANGED procs
       ELSE /\ streams' = [streams EXCEPT ![s].pc = "yield_exit"]
            /\ procs' = [procs EXCEPT ![o].st = "reaped"]
            /\ UNCHANGED loop
    /\ UNCHANGED <<ex, resp, running_processes>>

\* a blocking readline on a pipe of the process returns: a line is there,
\* or the process has ended and the pipe is at end of file
PipeReady(o, n) == n > 0 \/ procs[o].st # "running"

\* line = process.stdout.readline(); if line: yield the stdout event
GenReadOut(s) ==
    /\ loop = s
    /\ streams[s].pc = "read_out"
    /\ LET o == streams[s].o IN
       /\ PipeReady(o, procs[o].out)
       /\ IF procs[o].out > 0
          THEN /\ procs' = [procs EXCEPT ![o].out = procs[o].out - 1]
               /\ streams' = [streams EXCEPT ![s].pc = "yield_out"]
               /\ loop' = 0
          ELSE /\ streams' = [streams EXCEPT ![s].pc = "read_err"]
               /\ UNCHANGED <<procs, loop>>
    /\ UNCHANGED <<ex, resp, running_processes>>

\* the client has taken the stdout event: the generator runs on
GenResumeOut(s) ==
    /\ loop = 0
    /\ streams[s].pc = "yield_out"
    /\ streams' = [streams EXCEPT ![s].pc = "read_err"]
    /\ loop' = s
    /\ UNCHANGED <<ex, resp, running_processes, procs>>

\* line = process.stderr.readline(); if line: yield the stderr event;
\* else go on to await asyncio.sleep(0.1)
GenReadErr(s) ==
    /\ loop = s
    /\ streams[s].pc = "read_err"
    /\ LET o == streams[s].o IN
       /\ PipeReady(o, procs[o].err)
       /\ IF procs[o].err > 0
          THEN /\ procs' = [procs EXCEPT ![o].err = procs[o].err - 1]
               /\ streams' = [streams EXCEPT ![s].pc = "yield_err"]
          ELSE /\ streams' = [streams EXCEPT ![s].pc = "sleep"]
               /\ UNCHANGED procs
    /\ loop' = 0
    /\ UNCHANGED <<ex, resp, running_processes>>

\* the client has taken the stderr event: on to await asyncio.sleep(0.1)
GenResumeErr(s) ==
    /\ loop = 0
    /\ streams[s].pc = "yield_err"
    /\ streams' = [streams EXCEPT ![s].pc = "sleep"]
    /\ UNCHANGED <<ex, resp, running_processes, procs, loop>>

\* finally: if process_id in running_processes: del running_processes[...]
Finally(s, end) ==
    /\ streams' = [streams EXCEPT ![s] = [NoStream EXCEPT !.pc = "done", !.http = 200,
                                                          !.end = end]]
    /\ running_processes' = Remove(running_processes, streams[s].h)
    /\ procs' = Collect(procs, running_processes', streams', FALSE)

\* the client has taken the exit event: the generator ends
GenResumeExit(s) ==
    /\ loop = 0
    /\ streams[s].pc = "yield_exit"
    /\ Finally(s, "exit")
    /\ UNCHANGED <<ex, resp, loop>>

\* a readline raises: the line on the pipe is not valid UTF-8 for the text
\* mode of the Popen (UnicodeDecodeError); except Exception yields the
\* error event
GenReadRaises(s) ==
    /\ loop = s
    /\ LET o == streams[s].o IN
       \/ /\ streams[s].pc = "read_out"
          /\ procs[o].out > 0
          /\ procs' = [procs EXCEPT ![o].out = procs[o].out - 1]
       \/ /\ streams[s].pc = "read_err"
          /\ procs[o].err > 0
          /\ procs' = [procs EXCEPT ![o].err = procs[o].err - 1]
    /\ streams' = [streams EXCEPT ![s].pc = "yield_error"]
    /\ loop' = 0
    /\ UNCHANGED <<ex, resp, running_processes>>

\* the client has taken the error event: the generator ends
GenResumeError(s) ==
    /\ loop = 0
    /\ streams[s].pc = "yield_error"
    /\ Finally(s, "error")
    /\ UNCHANGED <<ex, resp, loop>>

\* the client disconnects: the suspended generator is closed or cancelled
\* and only its finally block runs
Disconnect(s) ==
    /\ loop = 0
    /\ streams[s].pc \in {"sleep", "yield_out", "yield_err", "yield_exit",
                           "yield_error"}
    /\ Finally(s, "disconnect")
    /\ UNCHANGED <<ex, resp, loop>>

\* a background process writes a line to stdout or to stderr
BgWrite(o, ch) ==
    /\ procs[o].st = "running"
    /\ procs[o].out + procs[o].err < MaxBgLines
    /\ procs' = [procs EXCEPT ![o].out = IF ch = "stdout" THEN procs[o].out + 1
                                         ELSE procs[o].out,
                              ![o].err = IF ch = "stderr" THEN procs[o].err + 1
                                         ELSE procs[o].err]
    /\ UNCHANGED <<ex, resp, running_processes, streams, loop>>

\* a background process ends on its own
BgExit(o, c) ==
    /\ procs[o].st = "running"
    /\ procs' = [procs EXCEPT ![o].st = "zombie", ![o].code = c]
    /\ UNCHANGED <<ex, resp, running_processes, streams, loop>>

\* the steps the server takes on its own once a stream is open
GenStep(s) ==
    \/ GenPoll(s)
    \/ GenReadOut(s)
    \/ GenResumeOut(s)
    \/ GenReadErr(s)
    \/ GenResumeErr(s)
    \/ GenResumeExit(s)
    \/ GenReadRaises(s)
    \/ GenResumeError(s)

\* ------------------------------ sandbox_api/main.py  GET /health, /status
\* the tools get_status looks for with check_tool_available
StatusTools == {"playwright", "semgrep", "sqlmap", "ffuf", "nmap"}

HealthCheck ==
    /\ resp' = [op |-> "health", http |-> 200,
                body |-> [ok |-> TRUE, status |-> "healthy"]]
    /\ UNCHANGED <<ex, bgvars>>

\* get_status: the fixed capabilities, whether DISPLAY is set, the length
\* of the registry, and which of the tools are on the path
GetStatus(display, installed) ==
    /\ resp' = [op |-> "status", http |-> 200,
                body |-> [ok |-> TRUE, display_available |-> display,
                          running_processes |-> Cardinality(DOMAIN running_processes),
                          tools |-> [t \in StatusTools |-> t \in installed]]]
    /\ UNCHANGED <<ex, bgvars>>

\* the caller has taken the result of the blocking call
Return ==
    /\ resp # NoResp
    /\ resp' = NoResp
    /\ UNCHANGED <<ex, bgvars>>

\* the requests and calls, one at a time, with every input of the bounds
ExecuteRequest ==
    Idle /\ \E beh \in ExecBehaviours, allow \in AllowExec : ExecuteSync(beh, allow)
CommandRequest == Idle /\ \E beh \in ExecBehaviours : CommandSync(beh)
PlaywrightRequest ==
    Idle /\ \E sc \in Scenarios, url \in Urls, payload \in Payloads,
                beh \in ExecBehaviours, screen \in Screens :
                RunScenario(sc, url, payload, beh, screen)
ScanRequest ==
    Idle /\ \E path \in RepoPaths, sem \in ToolInputs, ban \in ToolInputs :
                RunStaticScan(path, sem, ban)
SqlmapRequest ==
    Idle /\ \E target \in TargetUrls, crawl \in BOOLEAN, forms \in BOOLEAN,
                beh \in SqlmapBehaviours : RunSqlmapScan(target, crawl, forms, beh)
HealthRequest == Idle /\ HealthCheck
StatusRequest ==
    Idle /\ \E display \in BOOLEAN, installed \in SUBSET StatusTools :
                GetStatus(display, installed)
ToolRequest == Idle /\ \E beh \in ToolBehaviours : RunTool(beh)
RunAllRequest ==
    Idle /\ \E sem \in SarifBehaviours, ban \in SarifBehaviours, req \in BOOLEAN,
                pip \in SarifBehaviours :
                (req \/ pip.kind = "notfound") /\ RunAll(sem, ban, req, pip)
PostRequest ==
    Idle /\ \E url \in ControlPlaneUrls, token \in Tokens, sid \in SessionIds,
                net \in Deliveries : PostFindings(url, token, sid, net)

Init ==
    /\ ex = ExIdle
    /\ resp = NoResp
    /\ running_processes = <<>>
    /\ procs = [o \in Objects |-> NoProc]
    /\ streams = [s \in Streams |-> NoStream]
    /\ loop = 0

Next ==
    \/ \E c \in Consumers, t \in Timeouts, ok \in BOOLEAN : ExStart(c, t, ok)
    \/ ExRelease
    \/ ExReadLine
    \/ ExReadTimeout
    \/ ExResume
    \/ ExClose
    \/ ExWaitReturns
    \/ ExWaitTimeout
    \/ \E l \in Lines : ProcWrite(l)
    \/ ProcCloseStdout
    \/ \E c \in ExitCodes : ProcExit(c)
    \/ Tick
    \/ ExecuteRequest
    \/ CommandRequest
    \/ PlaywrightRequest
    \/ ScanRequest
    \/ ToolRequest
    \/ RunAllRequest
    \/ PostRequest
    \/ SqlmapRequest
    \/ HealthRequest
    \/ StatusRequest
    \/ Return

Spec == Init /\ [][Next]_vars

\* the service with its background registry
NextBg ==
    \/ \E pid \in Pids, sec \in Seconds : BgExecute(pid, sec)
    \/ \E s \in Streams, h \in Handles : StreamOpen(s, h)
    \/ \E s \in Streams : StreamRelease(s)
    \/ \E s \in Streams : GenPoll(s)
    \/ \E s \in Streams : GenReadOut(s)
    \/ \E s \in Streams : GenResumeOut(s)
    \/ \E s \in Streams : GenReadErr(s)
    \/ \E s \in Streams : GenResumeErr(s)
    \/ \E s \in Streams : GenResumeExit(s)
    \/ \E s \in Streams : GenReadRaises(s)
    \/ \E s \in Streams : GenResumeError(s)
    \/ \E s \in Streams : Disconnect(s)
    \/ \E o \in Objects, ch \in {"stdout", "stderr"} : BgWrite(o, ch)
    \/ \E o \in Objects, c \in BgCodes : BgExit(o, c)

SpecBg == Init /\ [][NextBg]_vars

\* the two execute endpoints asked for a background process, one request at
\* a time, and the processes they started
NextExec ==
    \/ \E pid \in Pids, sec \in Seconds, allow \in AllowExec :
          ExecuteBackground(pid, sec, allow)
    \/ ExecuteRequest
    \/ \E pid \in Pids : CommandBackground(pid)
    \/ Return
    \/ \E o \in Objects, ch \in {"stdout", "stderr"} : BgWrite(o, ch)
    \/ \E o \in Objects, c \in BgCodes : BgExit(o, c)

SpecExec == Init /\ [][NextExec]_vars

\* the registry and the streams over processes that write nothing, with
\* the other endpoints called in between, each with one input (Spec goes
\* through all inputs of these endpoints)
NextReg ==
    \/ Idle /\ \E beh \in {b \in ExecBehaviours : b.kind = "notfound"} :
                  ExecuteSync(beh, 1)
    \/ Idle /\ \E beh \in {b \in ExecBehaviours : b.kind = "notfound"} :
                  RunScenario("navigate", <<"http://t">>, <<"None">>, beh,
                              [display |-> TRUE, xwd |-> TRUE, pil |-> TRUE])
    \/ Idle /\ \E tool \in {t \in ToolInputs : ~t.avail} :
                  RunStaticScan("/repo", tool, tool)
    \/ Idle /\ \E beh \in {b \in SqlmapBehaviours : b.kind = "notfound"} :
                  RunSqlmapScan("", FALSE, FALSE, beh)
    \/ HealthRequest
    \/ Idle /\ GetStatus(TRUE, StatusTools)
    \/ Return
    \/ \E pid \in Pids, sec \in Seconds : BgExecute(pid, sec)
    \/ \E s \in Streams, h \in Handles : StreamOpen(s, h)
    \/ \E s \in Streams : StreamRelease(s)
    \/ \E s \in Streams : GenPoll(s)
    \/ \E s \in Streams : GenReadOut(s)
    \/ \E s \in Streams : GenReadErr(s)
    \/ \E s \in Streams : GenResumeExit(s)
    \/ \E s \in Streams : Disconnect(s)
    \/ \E o \in Objects, c \in BgCodes : BgExit(o, c)

SpecReg == Init /\ [][NextReg]_vars

\* the server runs every open generator; nothing obliges a client to open
\* a stream or a process to end
FairSpecBg == SpecBg /\ \A s \in Streams : WF_vars(GenStep(s))
\* ================================================================ claims
\* The process of an Executor invocation ended on its own: it was not killed.
ExitedOnItsOwn == ex.proc = "exited" /\ ~ex.killed
RunCaptureDone == ex.pc = "done" /\ ex.consumer = "run_capture"
IsError(r) == r.http # 200 \/ "error" \in DOMAIN r.body

\* C1: once an invocation whose timeout elapsed has returned or raised
\* (stream_process and run_capture, _run, the synchronous /execute and
\* /command), no process it spawned is still running.
C1_NoProcessAfterTimeout ==
    /\ (ex.pc = "done" /\ ex.cause = "TimeoutError") => ex.proc # "running"
    /\ (resp.op \in {"execute", "command", "_run"} /\ resp.beh.kind = "hang")
          => (resp.spawned = 1 /\ resp.alive = 0)

\* C2: a command still running when its timeout elapses yields the status
\* -1, and -1 is never the status of a command that ended on its own or of
\* any other failure.
C2_TimeoutStatusDistinguished ==
    /\ resp.op = "command"
          => (resp.body.exit_code = Sentinel <=> resp.beh.kind = "hang")
    /\ resp.op = "execute"
          => (("returncode" \in DOMAIN resp.body /\ resp.body.returncode = Sentinel)
                 <=> resp.beh.kind = "hang")
    /\ RunCaptureDone
          => ((ex.result.kind = "return" /\ ex.result.code = Sentinel)
                 <=> ex.cause = "TimeoutError")

C5_ClosedEarlyProcessGone ==
    (ex.pc = "done" /\ ex.cause = "closed") => ex.proc # "running"
C5_Witness ==
    ex.pc = "done" /\ ex.cause = "closed" /\ ex.killed /\ Len(ex.buf) = 1

\* C6: a scenario request whose name is not registered is rejected with an
\* error and spawns no process.
C6_UnknownScenarioRejected ==
    (resp.op = "playwright" /\ resp.scenario \notin Registered)
        => (IsError(resp) /\ resp.spawned = 0)

\* An adapter of the /scan/static handler failed: the tool is missing, cannot
\* be started, runs into its timeout, or ends with a code that is not accepted.
Failed(tool, inp) ==
    inp.avail /\ (inp.beh.kind # "exit" \/ inp.beh.code \notin Accepted(tool))
\* Tool output of the shape the parser is written for.
WellFormed(o) ==
    o.kind = "dict" /\ o.key = "list" /\ \A i \in 1..Len(o.items) : o.items[i] # "bad"
\* An adapter that ran, ended with an accepted code and wrote well-formed output.
Healthy(tool, inp) ==
    inp.avail /\ inp.beh.kind = "exit" /\ inp.beh.code \in Accepted(tool)
    /\ WellFormed(inp.beh.out)
Malformed(tool, inp) ==
    inp.avail /\ inp.beh.kind = "exit" /\ inp.beh.code \in Accepted(tool)
    /\ ~WellFormed(inp.beh.out)
FindingsOf(tool, inp) ==
    [i \in 1..Len(inp.beh.out.items) |-> [tool |-> tool, type |-> inp.beh.out.items[i]]]
Mentions(seq, x) == \E i \in 1..Len(seq) : seq[i] = x

\* C7: the failure of one adapter never keeps a later adapter from being
\* invoked and never makes the scan an error, in run_all and in /scan/static.
C7_AdapterFailureIsolated ==
    /\ resp.op = "run_all"
          => (resp.raised = "none" /\ resp.invoked = <<"semgrep", "bandit", "pip-audit">>)
    /\ (resp.op = "scan_static" /\ resp.path # "" /\ Failed("semgrep", resp.sem)
           /\ (Healthy("bandit", resp.ban) \/ ~resp.ban.avail))
          => (resp.http = 200 /\ (resp.ban.avail => Mentions(resp.invoked, "bandit")))
    /\ (resp.op = "scan_static" /\ resp.path # "" /\ Failed("bandit", resp.ban)
           /\ (Healthy("semgrep", resp.sem) \/ ~resp.sem.avail))
          => resp.http = 200

\* C8: an adapter whose output is malformed contributes no findings, and the
\* findings of the other adapter, when its output is well-formed, are in the
\* report.
C8_MalformedOutputIsolated ==
    /\ (resp.op = "scan_static" /\ resp.path # "" /\ Malformed("semgrep", resp.sem)
           /\ Healthy("bandit", resp.ban))
          => (resp.http = 200 /\ resp.body.findings = FindingsOf("bandit", resp.ban))
    /\ (resp.op = "scan_static" /\ resp.path # "" /\ Malformed("bandit", resp.ban)
           /\ Healthy("semgrep", resp.sem))
          => (resp.http = 200 /\ resp.body.findings = FindingsOf("semgrep", resp.sem))
    /\ (resp.op = "run_all" /\ resp.sem.kind = "exit" /\ ~WellFormed(resp.sem.out)
           /\ resp.ban.kind = "exit" /\ WellFormed(resp.ban.out) /\ ~resp.req)
          => LET m == merge_sarif(resp.value) IN
             m.raised = "none" /\ m.runs = resp.ban.out.items

\* C9: two stream requests open at the same time never both consume output
\* of the same background process: they never each hold a line read from
\* its pipes.
C9_OneReaderPerHandle ==
    \A s1, s2 \in Streams :
        (/\ s1 # s2
         /\ streams[s1].pc \in {"yield_out", "yield_err"}
         /\ streams[s2].pc \in {"yield_out", "yield_err"})
            => streams[s1].o # streams[s2].o

\* The registry holds h for a process that has ended and whose pipes are empty.
EndedAndDrained(h) ==
    /\ h \in DOMAIN running_processes
    /\ LET p == procs[running_processes[h]] IN
       p.st # "running" /\ p.out = 0 /\ p.err = 0

\* C10: a registry entry whose process has ended and whose output is drained
\* is eventually removed from the registry.
C10_EndedEntryRemoved ==
    \A h \in Handles : EndedAndDrained(h) ~> (h \notin DOMAIN running_processes)

\* C11: a background process that is running has its entry in the registry:
\* when a stream's generator is closed by a disconnect and the entry is
\* removed, the process has been killed.
C11_DisconnectKillsProcess ==
    \A o \in Objects :
        procs[o].st = "running" => \E h \in DOMAIN running_processes :
                                       running_processes[h] = o

\* The generator of stream s is inside a readline that has not returned: the
\* pipe is empty and the process is running.
WaitingInReadline(s) ==
    LET o == streams[s].o IN
    \/ streams[s].pc = "read_out" /\ ~PipeReady(o, procs[o].out)
    \/ streams[s].pc = "read_err" /\ ~PipeReady(o, procs[o].err)

\* C12: while one stream request waits for output of its process, another
\* request can be served: a stream request arriving on the free slot is
\* taken up by the service.
C12_WaitDoesNotBlockOthers ==
    \A s, t \in Streams :
        (/\ WaitingInReadline(s)
         /\ streams[t].pc = "idle"
         /\ \A u \in Streams : u < t => streams[u].pc # "idle")
            => ENABLED (\E h \in Handles : StreamOpen(t, h))

\* C13: when a background execute request returns (POST /execute and POST
\* /command), its response carries a handle, the handle is in the registry,
\* and the registry maps it to the process the request spawned.
C13_BackgroundHandleRegistered ==
    resp.op \in {"execute_bg", "command_bg"} =>
        /\ "process_id" \in DOMAIN resp.body
        /\ resp.body.process_id \in DOMAIN running_processes
        /\ procs[running_processes[resp.body.process_id]].pid = resp.body.pid

\* The SARIF entries a tool run wrote, in the order it wrote them; nothing
\* when its output is no SARIF object with a list of runs.
SarifEntries(beh) ==
    IF beh.kind \in {"exit", "hang"} /\ beh.out.kind = "dict" /\ beh.out.key = "list"
    THEN beh.out.items ELSE <<>>
\* The findings an adapter of /scan/static has to contribute.
ScanEntries(tool, inp) == IF Healthy(tool, inp) THEN FindingsOf(tool, inp) ELSE <<>>

\* C14: the merged report holds the entries of semgrep, then of bandit, then
\* of pip-audit, each adapter's entries in the order the tool wrote them,
\* whichever adapters contributed; the findings of /scan/static hold those
\* of semgrep, then those of bandit.
C14_FixedAdapterOrder ==
    /\ resp.op = "run_all" =>
          LET m == merge_sarif(resp.value) IN
          m.raised = "none" =>
              m.runs = SarifEntries(resp.sem) \o SarifEntries(resp.ban)
                          \o (IF resp.req THEN SarifEntries(resp.pip) ELSE <<>>)
    /\ (resp.op = "scan_static" /\ resp.http = 200) =>
          resp.body.findings = ScanEntries("semgrep", resp.sem)
                                  \o ScanEntries("bandit", resp.ban)
C14_Witness ==
    /\ resp.op = "run_all"
    /\ SarifEntries(resp.sem) = <<"f1", "f2">>
    /\ SarifEntries(resp.ban) = <<"f2", "f1">>
    /\ resp.req /\ SarifEntries(resp.pip) = <<"f1">>
    /\ merge_sarif(resp.value).runs = <<"f1", "f2", "f2", "f1", "f1">>

\* C15: a static scan with no adapter available answers 200 with no
\* findings and no tools used, and the merge of no adapter outputs is a
\* report without runs, returned normally.
C15_EmptyReport ==
    /\ (resp.op = "scan_static" /\ resp.path # "" /\ ~resp.sem.avail /\ ~resp.ban.avail)
          => /\ resp.http = 200
             /\ resp.body.findings = <<>>
             /\ resp.body.tools_used = <<>>
    /\ (resp.op = "run_all" /\ resp.value = <<>>)
          => merge_sarif(resp.value) = [raised |-> "none", version |-> "2.1.0",
                                        runs |-> <<>>]
C15_Witness ==
    \/ /\ resp.op = "scan_static" /\ resp.path # ""
       /\ ~resp.sem.avail /\ ~resp.ban.avail
       /\ resp.body.tools_used = <<>>
    \/ /\ resp.op = "run_all" /\ resp.value = <<>>
       /\ resp.sem.kind = "notfound" /\ resp.ban.kind = "notfound" /\ ~resp.req

\* C16: every report of a scan has the same top-level fields, whichever
\* adapters contributed: scan_type, repository_path, findings and tools_used
\* for /scan/static, version and runs for the merged SARIF.
C16_ReportShapeFixed ==
    /\ (resp.op = "scan_static" /\ resp.http = 200)
          => DOMAIN resp.body = {"scan_type", "repository_path", "findings",
                                 "tools_used"}
    /\ resp.op = "run_all" =>
          LET m == merge_sarif(resp.value) IN
          m.raised = "none" => DOMAIN m = {"raised", "version", "runs"}
C16_Witness ==
    /\ resp.op = "scan_static" /\ resp.http = 200
    /\ resp.sem.avail /\ resp.ban.avail
    /\ resp.body.tools_used = <<"bandit">>
    /\ Len(resp.body.findings) = 2

\* C17: post_findings returns normally whatever becomes of the delivery:
\* connection failure, timeout, error status, missing or invalid URL.
C17_PostFindingsNeverRaises ==
    resp.op = "post_findings" => resp.result.raised = "none"
C17_Witness ==
    /\ resp.op = "post_findings"
    /\ resp.net = "ConnectError" /\ Len(resp.result.requests) = 1
    /\ resp.result.printed /\ resp.result.raised = "none"

\* C18: without a collector URL, or without a session id, post_findings
\* sends no request.
C18_NoAttemptWithoutUrlOrSession ==
    (/\ resp.op = "post_findings"
     /\ \/ resp.url.isNone
        \/ resp.url.text = <<>>
        \/ resp.session_id \in {"None", ""})
        => resp.result.requests = <<>>

\* C19: post_findings sends at most one request to the collector, also when
\* the attempt fails.
C19_AtMostOneAttempt ==
    resp.op = "post_findings" => Len(resp.result.requests) <= 1
C19_Witness ==
    /\ resp.op = "post_findings"
    /\ resp.net \in {"500", "TimeoutException"}
    /\ Len(resp.result.requests) = 1
    /\ resp.result.printed

\* The answer of /scan/static to a scan in which only this one adapter exists.
ScanWithOnly(tool, inp) ==
    LET st == ScanStep(ScanStart, tool, inp) IN
    [http |-> IF st.exc = "none" THEN 200 ELSE 500,
     findings |-> st.findings, tools_used |-> st.tools_used]
\* The answer resp is, as far as status, findings and tools go, the answer a.
SameScanResult(a) ==
    /\ resp.http = a.http
    /\ resp.http = 200 => /\ resp.body.findings = a.findings
                          /\ resp.body.tools_used = a.tools_used

\* C20: an adapter whose tool is not installed is not run and adds nothing,
\* and the scan ends as it would without that adapter: /scan/static answers
\* as the scan of the other adapter alone, and run_all returns what the
\* other adapters return.
C20_MissingToolContributesNothing ==
    /\ (resp.op = "scan_static" /\ resp.path # "" /\ ~resp.sem.avail)
          => /\ ~Mentions(resp.invoked, "semgrep")
             /\ SameScanResult(ScanWithOnly("bandit", resp.ban))
    /\ (resp.op = "scan_static" /\ resp.path # "" /\ ~resp.ban.avail)
          => /\ ~Mentions(resp.invoked, "bandit")
             /\ SameScanResult(ScanWithOnly("semgrep", resp.sem))
    /\ (resp.op = "run_all" /\ resp.sem.kind = "notfound")
          => /\ resp.raised = "none"
             /\ resp.value = SelectSeq(<<bandit_sarif(resp.ban),
                                         pip_audit_sarif(resp.req, resp.pip)>>,
                                       LAMBDA x : x # None)
C20_Witness ==
    /\ resp.op = "scan_static" /\ resp.path # ""
    /\ ~resp.sem.avail
    /\ Healthy("bandit", resp.ban)
    /\ resp.http = 200
    /\ resp.body.tools_used = <<"bandit">>
    /\ Len(resp.body.findings) = 1

\* An adapter that ran to its end and wrote well-formed output, whatever
\* its return code.
Parseable(inp) == inp.avail /\ inp.beh.kind = "exit" /\ WellFormed(inp.beh.out)

\* C21: the findings of a tool that ended with well-formed output are in
\* the report whatever its return code: in /scan/static for semgrep and
\* for bandit, and in the SARIF adapters of static_runner.
C21_ExitCodeNeverDiscards ==
    /\ (resp.op = "scan_static" /\ resp.path # ""
           /\ Parseable(resp.sem) /\ Parseable(resp.ban))
          => /\ resp.http = 200
             /\ resp.body.findings = FindingsOf("semgrep", resp.sem)
                                        \o FindingsOf("bandit", resp.ban)
    /\ (resp.op = "run_all" /\ resp.sem.kind = "exit" /\ WellFormed(resp.sem.out))
          => semgrep_sarif(resp.sem) = [ty |-> "dict", key |-> "list",
                                        items |-> resp.sem.out.items]

\* The lines a consumer is to receive for the lines a process wrote.
RECURSIVE Stripped(_)
Stripped(ls) ==
    IF Len(ls) = 0 THEN <<>> ELSE <<RStripNL(Head(ls))>> \o Stripped(Tail(ls))

C23_StreamEndsWithExit ==
    \A s \in Streams :
        (streams[s].pc = "done" /\ streams[s].http = 200
            /\ streams[s].end # "disconnect")
            => streams[s].end = "exit"

\* C24: a synchronous command that ends with an exit code gets a normal
\* response: no error field, the success flag true exactly for code 0, the
\* command's exit code and its stderr.
C24_NonZeroExitIsNormalResponse ==
    /\ (resp.op = "execute" /\ resp.beh.kind \in {"exit", "undecodable"})
          => /\ resp.http = 200
             /\ "error" \notin DOMAIN resp.body
             /\ "returncode" \in DOMAIN resp.body
             /\ resp.body.returncode = resp.beh.code
             /\ resp.body.stderr = resp.beh.err
             /\ resp.body.success = (resp.beh.code = 0)
    /\ (resp.op = "command" /\ resp.beh.kind \in {"exit", "undecodable"})
          => /\ resp.http = 200
             /\ resp.body.error = "None"
             /\ resp.body.exit_code = resp.beh.code
             /\ resp.body.stderr = resp.beh.err
             /\ resp.body.success = (resp.beh.code = 0)

\* C25: a scan request without its required field is answered with 400,
\* and the handler has then called no availability check and started no
\* process.
C25_MissingFieldRejectedFirst ==
    /\ (resp.op = "scan_static" /\ resp.path = "")
          => /\ resp.http = 400
             /\ resp.checked = <<>> /\ resp.invoked = <<>>
             /\ resp.spawned = 0
    /\ (resp.op = "scan_sqlmap" /\ resp.target = "")
          => /\ resp.http = 400
             /\ resp.checked = <<>> /\ resp.cmd = <<>>
             /\ resp.spawned = 0

\* a static scan without a path, on a machine where both tools are
\* installed and would have run
C25_Witness ==
    /\ resp.op = "scan_static" /\ resp.path = ""
    /\ resp.sem.avail /\ resp.sem.beh.kind = "exit"
    /\ resp.ban.avail /\ resp.ban.beh.kind = "exit"
    /\ resp.http = 400

\* C26: when the scenario process has exited and taking the screenshot
\* fails, the response is the one a successful screenshot would have given
\* (same success flag, exit code and output) with no screenshot in it.
C26_ScreenshotFailureIsolated ==
    (/\ resp.op = "playwright"
     /\ resp.beh.kind = "exit" /\ resp.spawned = 1
     /\ take_screenshot(resp.screen).raised # "none")
        => LET good == PlaywrightResponse(resp.scenario, resp.url, resp.payload,
                           resp.beh, [display |-> TRUE, xwd |-> TRUE, pil |-> TRUE])
           IN  /\ resp.http = good.http
               /\ resp.body = [good.body EXCEPT !.screenshot_b64 = "None"]
               /\ resp.body.success = (resp.beh.code = 0)
               /\ resp.body.returncode = resp.beh.code

\* a scenario that exited with a non-zero code and printed, and a
\* screenshot that could be taken in no way
C26_Witness ==
    /\ resp.op = "playwright"
    /\ resp.beh.kind = "exit" /\ resp.beh.code = 1 /\ resp.beh.out = "x"
    /\ resp.screen = [display |-> TRUE, xwd |-> FALSE, pil |-> FALSE]
    /\ resp.body.screenshot_b64 = "None"

\* C27: two scenario requests with the same scenario name run the same
\* program whatever their url and payload are: the same command line and
\* the same code, the values being data only.
C27_ValuesAreData ==
    (resp.op = "playwright" /\ resp.spawned = 1)
        => \A url \in Urls, payload \in Payloads :
              LET other == PlaywrightResponse(resp.scenario, url, payload,
                                              resp.beh, resp.screen)
              IN  /\ other.argv = resp.argv
                  /\ Code(other.script) = Code(resp.script)

\* the number of entries of all inputs of a merge
RECURSIVE EntryCount(_)
EntryCount(sarifs) ==
    IF sarifs = <<>> THEN 0
    ELSE Len(RunsOf(Head(sarifs)).runs) + EntryCount(Tail(sarifs))

\* C28: a merged report has as many entries as its inputs have together,
\* equal entries included.
C28_MergeKeepsDuplicates ==
    resp.op = "run_all" =>
        LET m == merge_sarif(resp.value) IN
        m.raised = "none" => Len(m.runs) = EntryCount(resp.value)

\* two adapters reported the same single entry, and the merged report has
\* it twice
C28_Witness ==
    /\ resp.op = "run_all"
    /\ Len(resp.value) = 2
    /\ resp.value[1].items = <<"f1">> /\ resp.value[2].items = <<"f1">>
    /\ merge_sarif(resp.value).runs = <<"f1", "f1">>

\* C29: with ALLOW_EXEC set to 0 no /execute request, synchronous or
\* background, starts a process.
C29_ExecDisabled ==
    (resp.op \in {"execute", "execute_bg"} /\ resp.allow_exec = 0)
        => resp.spawned = 0

\* C30: a handle that is in the registry keeps its process: no step puts
\* another process under a handle that is still registered.
C30_HandleNeverOverwritten ==
    [][\A h \in DOMAIN running_processes :
          h \in DOMAIN running_processes'
              => running_processes'[h] = running_processes[h]]_vars

\* C31: when a stream that has been reading a running process finds the
\* process ended and goes on to its exit event, no line the process wrote
\* is still unread in its pipes.
C31_NoLineLostAtExit ==
    [][\A s \in Streams :
          (streams[s].pc = "sleep" /\ streams'[s].pc = "yield_exit")
              => /\ procs[streams[s].o].out = 0
                 /\ procs[streams[s].o].err = 0]_vars

Used(tool, inp) ==
    /\ inp.avail /\ inp.beh.kind = "exit" /\ inp.beh.code \in Accepted(tool)
    /\ ParseResults(tool, inp.beh.out).exc = "none"
\* the findings of a report that carry the tool's name
FindingsBy(tool, findings) == SelectSeq(findings, LAMBDA f : f.tool = tool)
ToolConsistent(tool, inp) ==
    /\ Mentions(resp.body.tools_used, tool) <=> Used(tool, inp)
    /\ FindingsBy(tool, resp.body.findings)
          = IF Mentions(resp.body.tools_used, tool) THEN FindingsOf(tool, inp)
            ELSE <<>>

\* C33: in a report of /scan/static every finding's tool is in tools_used,
\* no tool is there twice, a tool is there exactly when it was available,
\* ended with an accepted code and its output parsed, and the report has
\* all findings of a tool that is there and none of a tool that is not.
C33_ToolsUsedConsistent ==
    (resp.op = "scan_static" /\ resp.http = 200)
        => LET tu == resp.body.tools_used
               fs == resp.body.findings
           IN  /\ \A i \in 1..Len(fs) : Mentions(tu, fs[i].tool)
               /\ \A i, j \in 1..Len(tu) : tu[i] = tu[j] => i = j
               /\ ToolConsistent("semgrep", resp.sem)
               /\ ToolConsistent("bandit", resp.ban)

\* semgrep ended with code 0 and output that is no JSON, bandit ended
\* with code 1 and two findings
C33_Witness ==
    /\ resp.op = "scan_static" /\ resp.http = 200
    /\ resp.sem.avail /\ resp.sem.beh.kind = "exit" /\ resp.sem.beh.code = 0
    /\ resp.sem.beh.out.kind = "not_json"
    /\ resp.ban.avail /\ resp.ban.beh.code = 1
    /\ resp.body.tools_used = <<"bandit">>
    /\ resp.body.findings = <<[tool |-> "bandit", type |-> "f1"],
                              [tool |-> "bandit", type |-> "f2"]>>

\* merge_sarif([merge_sarif(A), merge_sarif(B)]); an inner call that
\* raises ends the whole expression
MergeOfMerges(A, B) ==
    LET mA == merge_sarif(A)
        mB == merge_sarif(B)
    IN  IF mA.raised # "none" THEN mA
        ELSE IF mB.raised # "none" THEN mB
        ELSE merge_sarif(<<AsInput(mA), AsInput(mB)>>)
MergeOfMerge(A) ==
    LET mA == merge_sarif(A)
    IN  IF mA.raised # "none" THEN mA ELSE merge_sarif(<<AsInput(mA)>>)

\* C34: for every way to cut a list of adapter outputs into A followed by
\* B, merging the two merged reports gives the merge of the whole list,
\* and merging a merged report alone gives it back.
C34_MergeFlatteningIdempotent ==
    resp.op = "run_all" =>
        \A k \in 0..Len(resp.value) :
            LET A == SubSeq(resp.value, 1, k)
                B == SubSeq(resp.value, k + 1, Len(resp.value))
            IN  /\ MergeOfMerges(A, B) = merge_sarif(A \o B)
                /\ MergeOfMerge(A) = merge_sarif(A)

\* three adapter outputs with four entries in all, merged without an error
C34_Witness ==
    /\ resp.op = "run_all"
    /\ Len(resp.value) = 3
    /\ merge_sarif(resp.value).raised = "none"
    /\ Len(merge_sarif(resp.value).runs) = 4
    /\ MergeOfMerges(SubSeq(resp.value, 1, 2), SubSeq(resp.value, 3, 3)).raised = "none"

NotFoundUnchanged(s) ==
    /\ streams'[s].pc = "done" /\ streams'[s].http = 404
    /\ running_processes' = running_processes
    /\ procs' = procs

\* C36: in every state, a stream request for a handle that is not in the
\* registry can only be answered with 404, with the registry and the
\* processes left as they are.
C36_UnknownHandleNotFound ==
    \A s \in Streams, h \in Handles :
        h \notin DOMAIN running_processes
            => ~ENABLED (StreamOpen(s, h) /\ ~NotFoundUnchanged(s))

\* a stream over a handle has run to its exit event, which removed the
\* entry, and a second request has been answered with 404 while no entry
\* is left
C36_Witness ==
    /\ streams[1].pc = "done" /\ streams[1].end = "exit"
    /\ streams[2].pc = "done" /\ streams[2].http = 404
    /\ running_processes = <<>>

\* C37: a step that changes the registry is a background execute that
\* adds one entry and keeps the others, or the end of a stream that
\* removes the entry of its handle; a step of the synchronous execute, the
\* scenario, scan, health or status handler leaves the registry as it is;
\* and the status response counts the entries of the registry.
C37_RegistryFrame ==
    [][/\ running_processes' # running_processes
          => \/ \E h \in Handles \ DOMAIN running_processes :
                   /\ DOMAIN running_processes' = DOMAIN running_processes \cup {h}
                   /\ \A k \in DOMAIN running_processes :
                         running_processes'[k] = running_processes[k]
             \/ \E s \in Streams :
                   /\ streams[s].pc \notin {"idle", "done"}
                   /\ streams'[s].pc = "done"
                   /\ running_processes' = Remove(running_processes, streams[s].h)
       /\ (resp' # resp /\ resp' # NoResp)
          => /\ resp'.op \in {"execute", "playwright", "scan_static", "scan_sqlmap",
                              "health", "status"}
             /\ running_processes' = running_processes
             /\ resp'.op = "status"
                => resp'.body.running_processes
                      = Cardinality(DOMAIN running_processes')]_vars
====
